---- MODULE Spec2Model ----
(***************************************************************************)
(* Synchronisation and reconciliation subsystem of orchestra:              *)
(* the two-way (baseline) diff, the three executors (one-way, two-way,     *)
(* device), the cancel token, the post-sync baseline regeneration and the  *)
(* device diff with its hash cache.                                        *)
(*                                                                         *)
(* A file is identified by its relative path; its content is a content id  *)
(* in Hashes (hash_file is a function of the bytes only, and distinct ids  *)
(* stand for distinct BLAKE3 digests); 0 stands for None / absent.         *)
(***************************************************************************)
EXTENDS Integers, Sequences, FiniteSets, TLC

\* ---------------------------------------------------------------- bounds
NumHashes == 2
MaxEdits == 1
MaxJobs == 2
MaxFaults == 1
NumBlocks == 2

\* ------------------------------------------------------------ data model
Hashes == 1..NumHashes
None == 0
OptHash == 0..NumHashes

\* relative paths below a root, listed in ascending byte order
\* ('.' sorts before '_')
PathSeq == <<"d/a.flac", "d/a_conflict.flac">>
Paths == {PathSeq[i] : i \in 1..Len(PathSeq)}

\* size in bytes of the content with id h; contents 1 and 2 have equal size
SizeOf(h) == IF h = None THEN 0 ELSE (h + 1) \div 2

\* mtime of the version of a file with content h, as stat reports it for a
\* file written by the user or copied by copy_file_safe (which preserves the
\* mtime of its source): every version was written at its own time
MtimeOf(h) == h

\* db/sync_state_repo.rs FileBaseline; present = FALSE is "no row"
NoBaseline == [present |-> FALSE, source_hash |-> None, target_hash |-> None]
MkBaseline(s, t) == [present |-> TRUE, source_hash |-> s, target_hash |-> t]

\* db/device_repo.rs CachedFileHash; present = FALSE is "no row"; hash None
\* is the empty string; modified_at identifies the file version whose mtime
\* it is
NoCacheRow == [present |-> FALSE, hash |-> None, file_size |-> 0, modified_at |-> 0]
MkCacheRow(h, size, mtime) ==
    [present |-> TRUE, hash |-> h, file_size |-> size, modified_at |-> mtime]
NoCache == [p \in Paths |-> NoCacheRow]

\* models/conflict.rs Resolution; "none" is "no ConflictResolution supplied"
Resolutions == {"KeepSource", "KeepTarget", "KeepBoth", "Skip"}
OptResolutions == Resolutions \cup {"none"}

\* ------------------------------------------------------- directory model
\* every path of Paths lives in directory "d" below the root; "mnt" is the
\* parent of the root and "/" the top of the filesystem
DirOf(p) == "d"
Parent(dir) ==
    CASE dir = "d" -> "root"
      [] dir = "root" -> "mnt"
      [] dir = "mnt" -> "/"
      [] OTHER -> "nil"
Dirs == {"d", "root", "mnt", "/"}
AllTargetDirs == Dirs

\* ConflictName if the target file were left under its own name
ConflictName_InPlace(p) == p

\* Path::file_stem / extension / with_file_name as used by KeepBoth:
\* "<stem>_conflict<.ext>" in the same directory; "nil" is a name outside
\* the modelled universe
ConflictName(p) ==
    CASE p = "d/a.flac" -> "d/a_conflict.flac"
      [] OTHER -> "nil"

\* --------------------------------------------------- filesystem operations
\* A filesystem value: src/tgt map a relative path to its content id (None
\* when the file does not exist); dirs is the set of existing directories on
\* the target side; others is the set of directories that hold entries the
\* walkers do not see (non-audio files, <dst>.tmp_sync sidecars); tmtime maps
\* a path to the mtime of the target-side file (0 when there is none).
MkFs(s, t, ds, os, mt) ==
    [src |-> s, tgt |-> t, dirs |-> ds, others |-> os, tmtime |-> mt]

Sides == {"src", "tgt"}
FileAt(fs, side, p) == IF side = "src" THEN fs.src[p] ELSE fs.tgt[p]
SetFile(fs, side, p, c) ==
    IF side = "src" THEN [fs EXCEPT !.src[p] = c]
    ELSE [fs EXCEPT !.tgt[p] = c, !.tmtime[p] = MtimeOf(c)]

\* std::fs::create_dir_all(parent): the directory and all its ancestors
RECURSIVE AncestorsOf(_)
AncestorsOf(dir) == IF dir = "nil" THEN {} ELSE {dir} \cup AncestorsOf(Parent(dir))

\* outcomes of the fallible steps of copy_file_safe
CopyOutcomes == {"ok", "err_mkdir", "err_copy", "err_rename", "err_meta"}

\* sync/one_way.rs copy_file_safe(src, dst): res.ok is "returned Ok(())"
CopyFileSafe(fs, from, p, to, q, o) ==
    IF o = "err_mkdir" THEN [fs |-> fs, ok |-> FALSE]
    ELSE LET fs1 == IF to = "tgt"
                    THEN [fs EXCEPT !.dirs = @ \cup AncestorsOf(DirOf(q))]
                    ELSE fs
             c == FileAt(fs, from, p)
         IN IF c = None \/ o = "err_copy" THEN [fs |-> fs1, ok |-> FALSE]
            ELSE IF o = "err_rename"
            THEN [fs |-> IF to = "tgt"
                         THEN [fs1 EXCEPT !.others = @ \cup {DirOf(q)}]
                         ELSE fs1,
                  ok |-> FALSE]
            ELSE [fs |-> SetFile(fs1, to, q, c), ok |-> o # "err_meta"]

RemoveOutcomes == {"ok", "err_remove"}

\* sync/two_way.rs remove_if_exists(path)
RemoveIfExists(fs, side, p, o) ==
    IF FileAt(fs, side, p) # None
    THEN IF o = "err_remove" THEN [fs |-> fs, ok |-> FALSE]
         ELSE [fs |-> SetFile(fs, side, p, None), ok |-> TRUE]
    ELSE [fs |-> fs, ok |-> TRUE]

\* read_dir(dir).next().is_none()
IsEmptyDir(fs, dir) ==
    /\ \A p \in Paths : DirOf(p) = dir => fs.tgt[p] = None
    /\ \A c \in fs.dirs : Parent(c) # dir
    /\ dir \notin fs.others

\* sync/one_way.rs remove_empty_parents(dir); failDir is the directory whose
\* read_dir or remove_dir returns an error ("nil": none does)
RECURSIVE RemoveEmptyParents(_, _, _)
RemoveEmptyParents(fs, dir, failDir) ==
    IF dir \notin fs.dirs THEN fs
    ELSE IF dir = failDir THEN fs
    ELSE IF IsEmptyDir(fs, dir)
    THEN RemoveEmptyParents([fs EXCEPT !.dirs = @ \ {dir}], Parent(dir), failDir)
    ELSE fs

\* sync/one_way.rs remove_file_safe(path) on the target side
RemoveFileSafe(fs, p, o, failDir) ==
    IF fs.tgt[p] # None
    THEN IF o = "err_remove" THEN [fs |-> fs, ok |-> FALSE]
         ELSE [fs |-> RemoveEmptyParents(SetFile(fs, "tgt", p, None), DirOf(p), failDir),
               ok |-> TRUE]
    ELSE [fs |-> fs, ok |-> TRUE]

\* sync/two_way.rs apply_resolution: o1 is the outcome of fs::rename, o2 of
\* the first copy_file_safe (or of the removal), o3 of the second copy
ApplyResolution(fs, p, r, o1, o2, o3) ==
    CASE r = "KeepSource" ->
           IF fs.src[p] # None THEN CopyFileSafe(fs, "src", p, "tgt", p, o2)
           ELSE RemoveIfExists(fs, "tgt", p, o1)
      [] r = "KeepTarget" ->
           IF fs.tgt[p] # None THEN CopyFileSafe(fs, "tgt", p, "src", p, o2)
           ELSE RemoveIfExists(fs, "src", p, o1)
      [] r = "KeepBoth" ->
           IF fs.src[p] # None /\ fs.tgt[p] # None
           THEN LET cp == ConflictName(p) IN
                IF o1 = "err_remove" THEN [fs |-> fs, ok |-> FALSE]
                ELSE LET fs1 == [SetFile(SetFile(fs, "tgt", cp, fs.tgt[p]), "tgt", p, None)
                                   EXCEPT !.tmtime[cp] = fs.tmtime[p]]
                         r2 == CopyFileSafe(fs1, "src", p, "tgt", p, o2)
                     IN IF ~r2.ok THEN r2
                        ELSE CopyFileSafe(r2.fs, "tgt", cp, "src", cp, o3)
           ELSE [fs |-> fs, ok |-> TRUE]
      [] OTHER -> [fs |-> fs, ok |-> TRUE]

\* ------------------------------------------------------------ two-way diff
\* HashChanged if a side that the baseline records as absent counted as
\* unchanged
HashChanged_AbsentIsUnchanged(baseline_hash, h) ==
    baseline_hash # None /\ baseline_hash # h

\* `b.source_hash.as_deref() != Some(&s.hash)`: the baseline hash of a side
\* differs from the hash found now (a None baseline hash differs from any)
HashChanged(baseline_hash, h) == baseline_hash # h

\* sync/two_way.rs compute_two_way_diff, the match on (src, tgt, baseline) of
\* one path: s and t are the hashes found by collect_file_states (None when
\* the walk did not find the file), b the FileBaseline row
Classify(s, t, b) ==
    LET src_changed == HashChanged(b.source_hash, s)
        tgt_changed == HashChanged(b.target_hash, t)
        Out(a, d, c) == [action |-> a, direction |-> d, conflict_type |-> c]
    IN
    IF s # None /\ t # None /\ b.present THEN
        IF ~src_changed /\ ~tgt_changed THEN Out("Unchanged", "Both", "none")
        ELSE IF src_changed /\ ~tgt_changed THEN Out("Update", "SourceToTarget", "none")
        ELSE IF ~src_changed /\ tgt_changed THEN Out("Update", "TargetToSource", "none")
        ELSE IF s = t THEN Out("Unchanged", "Both", "none")
        ELSE Out("Conflict", "Both", "BothModified")
    ELSE IF s # None /\ t # None THEN
        IF s = t THEN Out("Unchanged", "Both", "none")
        ELSE Out("Conflict", "Both", "FirstSyncDiffers")
    ELSE IF s # None /\ t = None /\ ~b.present THEN Out("Add", "SourceToTarget", "none")
    ELSE IF s = None /\ t # None /\ ~b.present THEN Out("Add", "TargetToSource", "none")
    ELSE IF s # None /\ t = None THEN
        IF src_changed THEN Out("Conflict", "Both", "DeletedAndModified")
        ELSE Out("Remove", "SourceToTarget", "none")
    ELSE IF s = None /\ t # None THEN
        IF tgt_changed THEN Out("Conflict", "Both", "DeletedAndModified")
        ELSE Out("Remove", "TargetToSource", "none")
    ELSE Out("Unchanged", "Both", "none")

\* bytes added to bytes_to_transfer for one classified path
TransferBytes(s, t, c) ==
    IF c.action \in {"Add", "Update"}
    THEN IF c.direction = "SourceToTarget" THEN SizeOf(s) ELSE SizeOf(t)
    ELSE 0

\* models/diff.rs DiffEntry as built at the end of the loop body
MkEntry(p, s, t, c) ==
    [relative_path |-> p, action |-> c.action, direction |-> c.direction,
     source_size |-> SizeOf(s), target_size |-> SizeOf(t),
     source_hash |-> s, target_hash |-> t]

\* models/conflict.rs Conflict pushed next to a Conflict entry
MkConflict(p, s, t, c) ==
    [relative_path |-> p, conflict_type |-> c.conflict_type,
     source_hash |-> s, target_hash |-> t]

\* a.relative_path.cmp(&b.relative_path) = Less: byte order of the strings,
\* which is the order of PathSeq
PathIndex(p) == CHOOSE i \in 1..Len(PathSeq) : PathSeq[i] = p
PathLess(p, q) == PathIndex(p) < PathIndex(q)

\* the orders in which `for rel in all_keys` can visit a HashSet of paths
IterOrders ==
    {o \in [1..Len(PathSeq) -> Paths] : \A i, j \in 1..Len(PathSeq) : o[i] = o[j] => i = j}

\* the keys of a HashSet in the order the loop visits them
KeysIn(order, keys) == SelectSeq(order, LAMBDA p : p \in keys)

\* SortByPath if the entries were returned in the order they were pushed
SortByPath_AsPushed(entries) == entries

\* entries.sort_by(|a, b| a.relative_path.cmp(&b.relative_path))
SortByPath(entries) ==
    SortSeq(entries, LAMBDA a, b : PathLess(a.relative_path, b.relative_path))

RECURSIVE SumSeq(_)
SumSeq(q) == IF q = <<>> THEN 0 ELSE Head(q) + SumSeq(Tail(q))

CountAction(entries, a) ==
    Cardinality({i \in 1..Len(entries) : entries[i].action = a})

EmptyDiff ==
    [entries |-> <<>>, conflicts |-> {}, total_add |-> 0, total_remove |-> 0,
     total_update |-> 0, total_conflict |-> 0, total_unchanged |-> 0,
     bytes_to_transfer |-> 0]

\* sync/two_way.rs compute_two_way_diff: (DiffResult, Vec<Conflict>); the
\* conflicts are kept as a set because their order is the iteration order of
\* a HashSet
ComputeTwoWayDiff(fs, bl, order) ==
    LET all_keys == {p \in Paths : fs.src[p] # None \/ fs.tgt[p] # None \/ bl[p].present}
        keys == KeysIn(order, all_keys)
        Cl(p) == Classify(fs.src[p], fs.tgt[p], bl[p])
        entries == SortByPath([i \in 1..Len(keys) |->
                       MkEntry(keys[i], fs.src[keys[i]], fs.tgt[keys[i]], Cl(keys[i]))])
    IN [entries |-> entries,
        conflicts |-> {MkConflict(p, fs.src[p], fs.tgt[p], Cl(p)) :
                          p \in {q \in all_keys : Cl(q).action = "Conflict"}},
        total_add |-> CountAction(entries, "Add"),
        total_remove |-> CountAction(entries, "Remove"),
        total_update |-> CountAction(entries, "Update"),
        total_conflict |-> CountAction(entries, "Conflict"),
        total_unchanged |-> CountAction(entries, "Unchanged"),
        bytes_to_transfer |->
            SumSeq([i \in 1..Len(keys) |->
                      TransferBytes(fs.src[keys[i]], fs.tgt[keys[i]], Cl(keys[i]))])]

\* ------------------------------------------------- one-way and device diff
\* what a walk knows of a file (sync/diff.rs FileInfo, device/sync.rs
\* FileInfo): size and mtime; content is the hash hash_file would return
NoFile == [present |-> FALSE, size |-> 0, modified |-> 0, content |-> None]
MkFile(size, modified, content) ==
    [present |-> TRUE, size |-> size, modified |-> modified, content |-> content]

\* models/track.rs Track as used by the device diff: the catalog's size,
\* mtime and optional hash; content is the hash of the file at file_path
NoTrack ==
    [present |-> FALSE, file_size |-> 0, modified_at |-> 0, hash |-> None,
     content |-> None]
MkTrack(size, modified, hash, content) ==
    [present |-> TRUE, file_size |-> size, modified_at |-> modified,
     hash |-> hash, content |-> content]

EntryRec(p, a, d, ssize, tsize, shash, thash) ==
    [relative_path |-> p, action |-> a, direction |-> d,
     source_size |-> ssize, target_size |-> tsize,
     source_hash |-> shash, target_hash |-> thash]

DiffOfEntries(entries, conflicts, bytes) ==
    [entries |-> entries, conflicts |-> conflicts,
     total_add |-> CountAction(entries, "Add"),
     total_remove |-> CountAction(entries, "Remove"),
     total_update |-> CountAction(entries, "Update"),
     total_conflict |-> CountAction(entries, "Conflict"),
     total_unchanged |-> CountAction(entries, "Unchanged"),
     bytes_to_transfer |-> bytes]

BytesOfEntries(entries) ==
    SumSeq([i \in 1..Len(entries) |->
              IF entries[i].action \in {"Add", "Update"}
              THEN entries[i].source_size ELSE 0])

\* ProbeEqual if the cheap probe compared the sizes only
ProbeEqual_SizeOnly(src, tgt) == src.size = tgt.size

\* `src.size == tgt.size && src.modified == tgt.modified`
ProbeEqual(src, tgt) == src.size = tgt.size /\ src.modified = tgt.modified

\* sync/diff.rs compute_one_way_diff, the match on (source, target) of one
\* path
OneWayEntry(p, src, tgt) ==
    IF src.present /\ ~tgt.present
    THEN EntryRec(p, "Add", "SourceToTarget", src.size, 0, src.content, None)
    ELSE IF ~src.present
    THEN EntryRec(p, "Remove", "SourceToTarget", 0, tgt.size, None, None)
    ELSE IF ProbeEqual(src, tgt)
    THEN EntryRec(p, "Unchanged", "SourceToTarget", src.size, tgt.size, None, None)
    ELSE IF src.content = tgt.content
    THEN EntryRec(p, "Unchanged", "SourceToTarget", src.size, tgt.size,
                  src.content, tgt.content)
    ELSE EntryRec(p, "Update", "SourceToTarget", src.size, tgt.size,
                  src.content, tgt.content)

\* sync/diff.rs compute_one_way_diff over the two walks
ComputeOneWayDiff(src, tgt, order) ==
    LET keys == KeysIn(order, {p \in Paths : src[p].present \/ tgt[p].present})
        entries == SortByPath([i \in 1..Len(keys) |->
                                  OneWayEntry(keys[i], src[keys[i]], tgt[keys[i]])])
    IN DiffOfEntries(entries, {}, BytesOfEntries(entries))

\* device/sync.rs compute_device_diff: the hash of the device file, from the
\* cache on a hit with matching (size, mtime), else by hashing the file
DeviceCacheHit(dev, cached) ==
    cached.present /\ cached.file_size = dev.size /\ cached.modified_at = dev.modified

\* device/sync.rs compute_device_diff, the (Some(track), Some(dev)) arm with
\* equal (size, mtime): "carry forward any cached hash"
CarriedHash(dev, cached) == IF cached.present THEN cached.hash ELSE None

\* device/sync.rs compute_device_diff, the match on (in_library, in_device)
\* of one path: the entry, the row pushed to new_cache and whether the device
\* file was hashed
DeviceEntry(p, track, dev, cached) ==
    IF track.present /\ ~dev.present
    THEN [entry |-> EntryRec(p, "Add", "SourceToTarget", track.file_size, 0,
                             track.hash, None),
          cache |-> NoCacheRow, hashed |-> FALSE]
    ELSE IF ~track.present
    THEN [entry |-> EntryRec(p, "Remove", "SourceToTarget", 0, dev.size, None, None),
          cache |-> NoCacheRow, hashed |-> FALSE]
    ELSE IF track.file_size = dev.size /\ track.modified_at = dev.modified
    THEN [entry |-> EntryRec(p, "Unchanged", "SourceToTarget", track.file_size,
                             dev.size, None, None),
          cache |-> MkCacheRow(CarriedHash(dev, cached), dev.size, dev.modified),
          hashed |-> FALSE]
    ELSE LET src_hash == IF track.hash # None THEN track.hash ELSE track.content
             hit == DeviceCacheHit(dev, cached)
             tgt_hash == IF hit THEN cached.hash ELSE dev.content
         IN [entry |-> EntryRec(p, IF src_hash = tgt_hash THEN "Unchanged" ELSE "Update",
                                "SourceToTarget", track.file_size, dev.size,
                                src_hash, tgt_hash),
             cache |-> MkCacheRow(tgt_hash, dev.size, dev.modified),
             hashed |-> ~hit]

\* device/sync.rs compute_device_diff: (DiffResult, new_cache) and the set of
\* device files hashed by the run
ComputeDeviceDiff(tracks, dev, hash_cache, order) ==
    LET all_keys == {p \in Paths : tracks[p].present \/ dev[p].present}
        keys == KeysIn(order, all_keys)
        R(p) == DeviceEntry(p, tracks[p], dev[p], hash_cache[p])
        entries == SortByPath([i \in 1..Len(keys) |-> R(keys[i]).entry])
    IN [diff |-> DiffOfEntries(entries, {}, BytesOfEntries(entries)),
        new_cache |-> [p \in Paths |-> IF p \in all_keys THEN R(p).cache ELSE NoCacheRow],
        hashed |-> {p \in all_keys : R(p).hashed}]

\* BuildPostSyncBaselines if only the paths found on both sides got a row
BuildPostSyncBaselines_BothSides(fs) ==
    [p \in Paths |->
        IF fs.src[p] # None /\ fs.tgt[p] # None
        THEN MkBaseline(fs.src[p], fs.tgt[p])
        ELSE NoBaseline]

\* commands/sync_cmd.rs build_post_sync_baselines: one FileBaseline for every
\* path found on at least one side, hashes of the files as they are now
BuildPostSyncBaselines(fs) ==
    [p \in Paths |->
        IF fs.src[p] # None \/ fs.tgt[p] # None
        THEN MkBaseline(fs.src[p], fs.tgt[p])
        ELSE NoBaseline]

\* ------------------------------------------------------------------- state
VARIABLES
    mode,            \* profile.sync_mode ("one_way", "two_way") or "device"
    srcFiles,        \* files below the source (library) root
    tgtFiles,        \* files below the target (device) root
    tgtDirs,         \* existing directories on the target side
    tgtOthers,       \* target-side directories holding unwalked entries
    tgtMtime,        \* mtime of the files below the target (device) root
    baselines,       \* sync_state rows of the profile
    lastSynced,      \* last_synced_at of the profile / device (0: never)
    cancelFlag,      \* CancelToken.flag, shared by all commands
    diff,            \* result of compute_diff held by the caller until executed
    execDiff,        \* diff_result argument of the running / last execute
    resolutions,     \* conflict_resolutions argument, as resolution_map
    pc,              \* "idle", "loop" (top of an iteration), "act"
    files_completed, \* executor local
    bytes_completed, \* executor local
    events,          \* ProgressEvents sent on the channel of this call
    ret,             \* return value of the last execute command
    clock,           \* number of execute commands started (source of `now`)
    edits,           \* number of external edits so far
    diffFresh,       \* diff was computed from the present trees and baselines
    editedSinceJob,  \* a file changed externally since the last job ended
    cancelInJob,     \* cancel_sync was called since the job started
    actsAfterCancel, \* per-file actions performed since that cancel
    preBaselines,    \* baselines when the running / last job started
    preLastSynced,   \* lastSynced when the running / last job started
    faults,          \* number of filesystem errors injected so far
    fileCache,       \* device_file_cache rows of the device
    pre_cache,       \* executor local: the cache being updated (a Vec with
                     \* at most one row per path, kept as a map)
    cacheVec,        \* the same Vec row by row: as passed in and as it is now
    keptConflicts,   \* paths a completed job left as DeletedAndModified
                     \* conflicts, unresolved or skipped, and not edited since
    libTracks,       \* catalog rows returned by get_tracks_for_device
    priorCache,      \* hash_cache argument of the last compute_device_diff
    hashedDev,       \* device files hashed by the last compute_device_diff
    failedActs,      \* paths whose per-file action hit a filesystem error
    abortedBy,       \* path whose action's error ended the executor ("nil")
    cp,              \* one call of copy_file_safe followed step by step
    par              \* two jobs of disjoint profiles/devices run in parallel

fsVars == <<srcFiles, tgtFiles, tgtDirs, tgtOthers, tgtMtime>>
dbVars == <<baselines, lastSynced>>
jobVars == <<execDiff, resolutions, pc, files_completed, bytes_completed, events, ret, clock>>
histVars == <<cancelInJob, actsAfterCancel, preBaselines, preLastSynced, failedActs,
              abortedBy>>
envVars == <<edits, faults, cp, par, keptConflicts>>
diffVars == <<libTracks, priorCache, hashedDev>>
devVars == <<fileCache, pre_cache, cacheVec, diffVars>>
vars == <<mode, srcFiles, tgtFiles, tgtDirs, tgtOthers, baselines, lastSynced,
          cancelFlag, diff, execDiff, resolutions, pc, files_completed,
          bytes_completed, events, ret, clock, edits, diffFresh,
          editedSinceJob, cancelInJob, actsAfterCancel, preBaselines,
          preLastSynced, faults, fileCache, pre_cache, tgtMtime, libTracks,
          priorCache, hashedDev, failedActs, abortedBy,
          cp, par, cacheVec, keptConflicts>>

CurFs == MkFs(srcFiles, tgtFiles, tgtDirs, tgtOthers, tgtMtime)

SetFs(fs) ==
    /\ srcFiles' = fs.src
    /\ tgtFiles' = fs.tgt
    /\ tgtDirs' = fs.dirs
    /\ tgtOthers' = fs.others
    /\ tgtMtime' = fs.tmtime

NoResolutions == [p \in Paths |-> "none"]
NoBaselines == [p \in Paths |-> NoBaseline]
NoTracks == [p \in Paths |-> NoTrack]

\* the variables of the job followed entry by entry
syncVars == <<mode, devVars, fsVars, dbVars, diff, jobVars, histVars,
              edits, faults, diffFresh, editedSinceJob, keptConflicts>>

\* ------------------------------------------- copy_file_safe, step by step
\* a file is a sequence of blocks, each carrying the id of the content it
\* belongs to; a complete file of content h is NumBlocks blocks of h
Absent == [exists |-> FALSE, blocks |-> <<>>]
MkBlocks(b) == [exists |-> TRUE, blocks |-> b]
FullFile(h) == MkBlocks([i \in 1..NumBlocks |-> h])

\* WithExtension if the copy were written to the destination itself
WithExtension_InPlace(p) == p

\* dst.with_extension("tmp_sync"): the extension of the file name is replaced
WithExtension(p) ==
    CASE p = "d/a.flac" -> "d/a.tmp_sync"
      [] p = "d/a_conflict.flac" -> "d/a_conflict.tmp_sync"
      [] OTHER -> p

CopyPaths == Paths \cup {WithExtension(p) : p \in Paths}

\* no call of copy_file_safe is being followed
NoCopy ==
    [pc |-> "none", dst |-> "nil", src |-> None, parent |-> FALSE,
     files |-> [q \in CopyPaths |-> Absent], old |-> Absent, mtime_set |-> FALSE]

\* --------------------------------------------------- the cache as a Vec
\* db/device_repo.rs CachedFileHash
MkVecRow(p, h, size, mtime) ==
    [relative_path |-> p, hash |-> h, file_size |-> size, modified_at |-> mtime]

\* cache_map.into_values().collect(): the rows of the stored cache in the
\* order the HashMap yields them
VecOf(cache, order) ==
    LET keys == KeysIn(order, {p \in Paths : cache[p].present})
    IN [i \in 1..Len(keys) |->
          MkVecRow(keys[i], cache[keys[i]].hash, cache[keys[i]].file_size,
                   cache[keys[i]].modified_at)]

\* no Vec is held outside a device job
NoVec == [at_start |-> <<>>, now |-> <<>>]

\* ------------------------------------------------------- parallel jobs
\* a sync profile and a device, their trees disjoint
Jobs == {"profile", "device"}

\* no job is being followed in parallel
NoPar ==
    [pc |-> [j \in Jobs |-> "idle"], ret |-> [j \in Jobs |-> "none"],
     todo |-> [j \in Jobs |-> 0], aimed |-> {}, clear_at_start |-> {}]

\* state after lib.rs run(): CancelToken::new(), an empty sync_state table
InitCommon ==
    /\ tgtDirs = AllTargetDirs
    /\ lastSynced = 0
    /\ cancelFlag = FALSE
    /\ execDiff = EmptyDiff
    /\ resolutions = NoResolutions
    /\ pc = "idle"
    /\ files_completed = 0
    /\ bytes_completed = 0
    /\ events = <<>>
    /\ ret = "none"
    /\ clock = 0
    /\ edits = 0
    /\ editedSinceJob = FALSE
    /\ cancelInJob = FALSE
    /\ actsAfterCancel = 0
    /\ preBaselines = NoBaselines
    /\ preLastSynced = 0
    /\ faults = 0
    /\ pre_cache = NoCache
    /\ cacheVec = NoVec
    /\ keptConflicts = {}
    /\ priorCache = NoCache
    /\ hashedDev = {}
    /\ failedActs = {}
    /\ abortedBy = "nil"

\* a two-way profile over two trees the user already has
Init ==
    /\ mode = "two_way"
    /\ srcFiles \in [Paths -> OptHash]
    /\ tgtFiles \in [Paths -> OptHash]
    /\ tgtMtime = [p \in Paths |-> MtimeOf(tgtFiles[p])]
    /\ tgtOthers = {"/"}
    /\ baselines = NoBaselines
    /\ diff = EmptyDiff
    /\ diffFresh = FALSE
    /\ fileCache = NoCache
    /\ libTracks = NoTracks
    /\ InitCommon
    /\ cp = NoCopy
    /\ par = NoPar

\* ------------------------------------------------------------ environment
\* the user writes, replaces or deletes a file of one tree between a job and
\* the next compute_diff
UserEdit ==
    /\ pc = "idle"
    /\ ~diffFresh
    /\ edits < MaxEdits
    /\ \E side \in Sides, p \in Paths, c \in OptHash :
         /\ c # FileAt(CurFs, side, p)
         /\ SetFs(LET fs1 == SetFile(CurFs, side, p, c) IN
                  IF side = "tgt" /\ c # None
                  THEN [fs1 EXCEPT !.dirs = @ \cup AncestorsOf(DirOf(p))]
                  ELSE fs1)
    /\ edits' = edits + 1
    /\ diffFresh' = FALSE
    /\ editedSinceJob' = TRUE
    /\ keptConflicts' = {}
    /\ UNCHANGED <<mode, devVars, dbVars, cancelFlag, diff, jobVars, histVars, faults,
                   cp, par>>

\* ---------------------------------------------------------------- commands
\* what collect_files / collect_device_files find below the two roots
SourceWalk ==
    [p \in Paths |->
        IF srcFiles[p] # None
        THEN MkFile(SizeOf(srcFiles[p]), MtimeOf(srcFiles[p]), srcFiles[p])
        ELSE NoFile]
TargetWalk ==
    [p \in Paths |->
        IF "root" \in tgtDirs /\ tgtFiles[p] # None
        THEN MkFile(SizeOf(tgtFiles[p]), tgtMtime[p], tgtFiles[p])
        ELSE NoFile]

\* commands/sync_cmd.rs compute_diff: both roots must exist; the diff engine
\* is chosen by profile.sync_mode
ComputeDiff ==
    /\ pc = "idle"
    /\ mode \in {"one_way", "two_way"}
    /\ "root" \in tgtDirs
    /\ \E order \in IterOrders :
         diff' = IF mode = "one_way"
                 THEN ComputeOneWayDiff(SourceWalk, TargetWalk, order)
                 ELSE ComputeTwoWayDiff(CurFs, baselines, order)
    /\ diffFresh' = TRUE
    /\ UNCHANGED <<mode, devVars, fsVars, dbVars, cancelFlag, jobVars, histVars, envVars,
                   editedSinceJob>>

\* commands/device_cmd.rs compute_device_diff: the mount path must exist;
\* the new cache returned by the diff replaces the stored one
ComputeDeviceDiffCmd ==
    /\ pc = "idle"
    /\ mode = "device"
    /\ ~diffFresh
    /\ "mnt" \in tgtDirs
    /\ \E order \in IterOrders :
         LET r == ComputeDeviceDiff(libTracks, TargetWalk, fileCache, order)
         IN /\ diff' = r.diff
            /\ fileCache' = r.new_cache
            /\ hashedDev' = r.hashed
    /\ priorCache' = fileCache
    /\ diffFresh' = TRUE
    /\ UNCHANGED <<mode, pre_cache, cacheVec, libTracks, fsVars, dbVars, cancelFlag, jobVars,
                   histVars, envVars, editedSinceJob>>

\* commands/sync_cmd.rs cancel_sync: CancelToken::cancel stores true
Cancel ==
    /\ cancelFlag' = TRUE
    /\ cancelInJob' = (cancelInJob \/ pc # "idle")
    /\ UNCHANGED <<mode, devVars, fsVars, dbVars, diff, jobVars, envVars, diffFresh,
                   editedSinceJob, actsAfterCancel, preBaselines, preLastSynced,
                   failedActs, abortedBy>>

\* ---------------------------------------------------------------- executor
\* IsActionable if the executors left Remove entries out
IsActionable_NoRemove(m, e) ==
    IF m = "two_way" THEN e.action # "Unchanged"
    ELSE e.action \in {"Add", "Update"}

\* the `actionable` filter of the executor of each mode
IsActionable(m, e) ==
    IF m = "two_way" THEN e.action # "Unchanged"
    ELSE e.action \in {"Add", "Update", "Remove"}

Actionable(m, d) == SelectSeq(d.entries, LAMBDA e : IsActionable(m, e))

\* the size an entry contributes to total_bytes and bytes_completed:
\* source_size.or(target_size).unwrap_or(0) in two-way mode,
\* source_size.unwrap_or(0) in the other two (a size of 0 stands for None)
EntryBytes(m, e) ==
    IF m = "two_way"
    THEN IF e.source_hash # None THEN e.source_size ELSE e.target_size
    ELSE e.source_size

TotalFiles == Len(Actionable(mode, execDiff))
\* TotalBytes if the total were taken from the diff's Add entries alone
TotalBytes_AddsOnly ==
    LET a == SelectSeq(Actionable(mode, execDiff), LAMBDA e : e.action = "Add")
    IN SumSeq([i \in 1..Len(a) |-> EntryBytes(mode, a[i])])

TotalBytes ==
    LET a == Actionable(mode, execDiff)
    IN SumSeq([i \in 1..Len(a) |-> EntryBytes(mode, a[i])])
CurEntry == Actionable(mode, execDiff)[files_completed + 1]

\* the conflict_resolutions a caller supplies with a diff: resolutions are
\* looked up for Conflict entries only, and KeepBoth is offered where the
\* renamed path is one of the modelled paths
ResolutionInputs(d) ==
    {r \in [Paths -> OptResolutions] :
        \A p \in Paths :
            /\ r[p] # "none" =>
                 \E i \in 1..Len(d.entries) :
                    d.entries[i].relative_path = p /\ d.entries[i].action = "Conflict"
            /\ r[p] = "KeepBoth" => ConflictName(p) # "nil"}

\* commands/sync_cmd.rs execute_sync and commands/device_cmd.rs
\* execute_device_sync up to the first iteration of the executor: the device
\* command loads the stored cache and requires the mount path; the flag of
\* the shared token is fetched ("Reset cancel token" only clones it),
\* actionable is built and SyncStarted is sent
ExecuteStart ==
    /\ pc = "idle"
    /\ diffFresh
    /\ clock < MaxJobs
    /\ mode = "device" => "mnt" \in tgtDirs
    /\ pre_cache' = IF mode = "device" THEN fileCache ELSE NoCache
    /\ \E order \in IterOrders :
         cacheVec' = IF mode = "device"
                     THEN [at_start |-> VecOf(fileCache, order),
                           now |-> VecOf(fileCache, order)]
                     ELSE NoVec
    /\ failedActs' = {}
    /\ abortedBy' = "nil"
    /\ \E r \in ResolutionInputs(diff) : resolutions' = r
    /\ execDiff' = diff
    /\ diff' = EmptyDiff
    /\ diffFresh' = FALSE
    /\ pc' = "loop"
    /\ files_completed' = 0
    /\ bytes_completed' = 0
    /\ events' = <<[type |-> "SyncStarted",
                    total_files |-> Len(Actionable(mode, diff)),
                    total_bytes |->
                        LET a == Actionable(mode, diff)
                        IN SumSeq([i \in 1..Len(a) |-> EntryBytes(mode, a[i])])]>>
    /\ ret' = "running"
    /\ clock' = clock + 1
    /\ cancelInJob' = FALSE
    /\ actsAfterCancel' = 0
    /\ preBaselines' = baselines
    /\ preLastSynced' = lastSynced
    /\ UNCHANGED <<mode, fileCache, diffVars, fsVars, dbVars, cancelFlag, envVars,
                   editedSinceJob>>

\* ExecCancelled if Err(SyncCancelled) did not skip the post-sync block
ExecCancelled_PostSyncRuns ==
    /\ pc = "loop"
    /\ files_completed < Len(Actionable(mode, execDiff))
    /\ cancelFlag
    /\ pc' = "idle"
    /\ ret' = "SyncCancelled"
    /\ editedSinceJob' = FALSE
    /\ lastSynced' = clock
    /\ baselines' = BuildPostSyncBaselines(CurFs)
    /\ UNCHANGED <<mode, devVars, fsVars, cancelFlag, diff, execDiff, resolutions,
                   files_completed, bytes_completed, events, clock, envVars,
                   diffFresh, histVars>>

\* top of an iteration with the flag set: return Err(SyncCancelled); the `?`
\* in the command skips everything after the executor call
ExecCancelled ==
    /\ pc = "loop"
    /\ files_completed < TotalFiles
    /\ cancelFlag
    /\ pc' = "idle"
    /\ ret' = "SyncCancelled"
    /\ editedSinceJob' = FALSE
    /\ UNCHANGED <<mode, devVars, fsVars, dbVars, cancelFlag, diff, execDiff, resolutions,
                   files_completed, bytes_completed, events, clock, envVars,
                   diffFresh, histVars>>

\* ExecProgress if the loop did not look at the cancel flag
ExecProgress_NoCancelCheck ==
    /\ pc = "loop"
    /\ files_completed < TotalFiles
    /\ mode = "device" => "root" \in tgtDirs
    /\ events' = Append(events,
                   [type |-> "SyncProgress", files_completed |-> files_completed,
                    total_files |-> TotalFiles, bytes_completed |-> bytes_completed,
                    total_bytes |-> TotalBytes,
                    current_file |-> CurEntry.relative_path])
    /\ pc' = "act"
    /\ UNCHANGED <<mode, devVars, fsVars, dbVars, cancelFlag, diff, execDiff, resolutions,
                   files_completed, bytes_completed, ret, clock, envVars,
                   diffFresh, editedSinceJob, histVars>>

\* ExecProgress if the loop sent no SyncProgress before the action
ExecProgress_Silent ==
    /\ pc = "loop"
    /\ files_completed < TotalFiles
    /\ ~cancelFlag
    /\ mode = "device" => "root" \in tgtDirs
    /\ pc' = "act"
    /\ UNCHANGED <<mode, devVars, fsVars, dbVars, cancelFlag, diff, execDiff, resolutions,
                   files_completed, bytes_completed, ret, clock, envVars, events,
                   diffFresh, editedSinceJob, histVars>>

\* top of an iteration with the flag clear (and, in device mode, the device
\* root present): SyncProgress is sent before the action is attempted
ExecProgress ==
    /\ pc = "loop"
    /\ files_completed < TotalFiles
    /\ ~cancelFlag
    /\ mode = "device" => "root" \in tgtDirs
    /\ events' = Append(events,
                   [type |-> "SyncProgress", files_completed |-> files_completed,
                    total_files |-> TotalFiles, bytes_completed |-> bytes_completed,
                    total_bytes |-> TotalBytes,
                    current_file |-> CurEntry.relative_path])
    /\ pc' = "act"
    /\ UNCHANGED <<mode, devVars, fsVars, dbVars, cancelFlag, diff, execDiff, resolutions,
                   files_completed, bytes_completed, ret, clock, envVars,
                   diffFresh, editedSinceJob, histVars>>

\* What goes wrong in one per-file action.  Every fallible call of an action
\* is followed by `?`, so at most one call of an action fails: "rm" is the
\* failing remove_file / rename, "c1_x" and "c2_x" the failure x of the first
\* and of the second copy_file_safe, "dir_x" an error of read_dir / remove_dir
\* on directory x during the clean-up of empty parents.
Faults ==
    {"ok", "rm"} \cup {"c1_mkdir", "c1_copy", "c1_rename", "c1_meta"}
                \cup {"c2_mkdir", "c2_copy", "c2_rename", "c2_meta"}
                \cup {"dir_d", "dir_root", "dir_mnt"}
O1(f) == IF f = "rm" THEN "err_remove" ELSE "ok"
O2(f) ==
    CASE f = "c1_mkdir" -> "err_mkdir" [] f = "c1_copy" -> "err_copy"
      [] f = "c1_rename" -> "err_rename" [] f = "c1_meta" -> "err_meta"
      [] OTHER -> "ok"
O3(f) ==
    CASE f = "c2_mkdir" -> "err_mkdir" [] f = "c2_copy" -> "err_copy"
      [] f = "c2_rename" -> "err_rename" [] f = "c2_meta" -> "err_meta"
      [] OTHER -> "ok"
FailDir(f) ==
    CASE f = "dir_d" -> "d" [] f = "dir_root" -> "root" [] f = "dir_mnt" -> "mnt"
      [] OTHER -> "nil"

\* sync/two_way.rs execute_two_way_sync, the match on entry.action
TwoWayAction(fs, e, r, o1, o2, o3) ==
    CASE e.action = "Conflict" ->
           IF r # "none" THEN ApplyResolution(fs, e.relative_path, r, o1, o2, o3)
           ELSE [fs |-> fs, ok |-> TRUE]
      [] e.action \in {"Add", "Update"} ->
           IF e.direction = "SourceToTarget"
           THEN CopyFileSafe(fs, "src", e.relative_path, "tgt", e.relative_path, o2)
           ELSE IF e.direction = "TargetToSource"
           THEN CopyFileSafe(fs, "tgt", e.relative_path, "src", e.relative_path, o2)
           ELSE [fs |-> fs, ok |-> TRUE]
      [] e.action = "Remove" ->
           IF e.direction = "SourceToTarget"
           THEN RemoveIfExists(fs, "src", e.relative_path, o1)
           ELSE IF e.direction = "TargetToSource"
           THEN RemoveIfExists(fs, "tgt", e.relative_path, o1)
           ELSE [fs |-> fs, ok |-> TRUE]
      [] OTHER -> [fs |-> fs, ok |-> TRUE]

\* a fault is injected only while the budget lasts and only where it changes
\* what the action does
Injected(f, res, resOk) ==
    /\ f # "ok" => faults < MaxFaults /\ res # resOk
    /\ faults' = IF f = "ok" THEN faults ELSE faults + 1

\* the rest of the loop body after the action: SyncError on Err, counters;
\* cache is the executor's pre_cache after the action
AfterAction(res, cache) ==
    /\ SetFs(res.fs)
    /\ pre_cache' = cache
    /\ failedActs' = IF res.ok THEN failedActs
                     ELSE failedActs \cup {CurEntry.relative_path}
    /\ events' = IF res.ok THEN events
                 ELSE Append(events, [type |-> "SyncError",
                                      file |-> CurEntry.relative_path])
    /\ bytes_completed' = bytes_completed + EntryBytes(mode, CurEntry)
    /\ files_completed' = files_completed + 1
    /\ actsAfterCancel' = IF cancelFlag THEN actsAfterCancel + 1 ELSE actsAfterCancel
    /\ pc' = "loop"
    /\ UNCHANGED <<mode, fileCache, diffVars, dbVars, cancelFlag, diff, execDiff,
                   resolutions, ret, clock, edits, cp, par, keptConflicts, diffFresh,
                   editedSinceJob,
                   cancelInJob, preBaselines, preLastSynced, abortedBy>>

\* one loop body of execute_two_way_sync
ExecActTwoWay ==
    /\ pc = "act"
    /\ mode = "two_way"
    /\ \E f \in Faults :
         LET Res(g) == TwoWayAction(CurFs, CurEntry,
                                    resolutions[CurEntry.relative_path],
                                    O1(g), O2(g), O3(g))
         IN /\ Injected(f, Res(f), Res("ok"))
            /\ AfterAction(Res(f), pre_cache)
            /\ UNCHANGED cacheVec

\* sync/one_way.rs execute_one_way_sync, the match on entry.action
OneWayAction(fs, e, o1, o2, failDir) ==
    IF e.action \in {"Add", "Update"}
    THEN CopyFileSafe(fs, "src", e.relative_path, "tgt", e.relative_path, o2)
    ELSE IF e.action = "Remove"
    THEN RemoveFileSafe(fs, e.relative_path, o1, failDir)
    ELSE [fs |-> fs, ok |-> TRUE]

\* one loop body of execute_one_way_sync
ExecActOneWay ==
    /\ pc = "act"
    /\ mode = "one_way"
    /\ \E f \in Faults :
         LET Res(g) == OneWayAction(CurFs, CurEntry, O1(g), O2(g), FailDir(g))
         IN /\ Injected(f, Res(f), Res("ok"))
            /\ AfterAction(Res(f), pre_cache)
            /\ UNCHANGED cacheVec

\* RetainVec if retain dropped nothing
RetainVec_KeepsAll(v, p) == v

\* pre_cache.retain(|c| c.relative_path != rel), on the Vec itself
RetainVec(v, p) == SelectSeq(v, LAMBDA c : c.relative_path # p)

\* device/sync.rs execute_device_sync, what the match on entry.action does to
\* the Vec: retain and push after a successful copy, retain after a Remove
DeviceVec(v, e, res) ==
    LET p == e.relative_path IN
    IF e.action \in {"Add", "Update"}
    THEN IF res.ok
         THEN Append(RetainVec(v, p),
                     MkVecRow(p, e.source_hash, SizeOf(res.fs.tgt[p]), res.fs.tmtime[p]))
         ELSE v
    ELSE IF e.action = "Remove" THEN RetainVec(v, p)
    ELSE v

\* pre_cache.retain(|c| c.relative_path != rel)
Retain(cache, p) == [cache EXCEPT ![p] = NoCacheRow]

\* device/sync.rs execute_device_sync, the match on entry.action: the
\* filesystem and pre_cache after the action, whether its result is Ok, and
\* whether `?` returned its error from the executor
DeviceAction(fs, cache, e, o1, o2, failDir) ==
    LET p == e.relative_path IN
    IF e.action \in {"Add", "Update"}
    THEN LET r == CopyFileSafe(fs, "src", p, "tgt", p, o2)
         IN [fs |-> r.fs, ok |-> r.ok, abort |-> FALSE,
             cache |-> IF r.ok
                       THEN [Retain(cache, p) EXCEPT
                               ![p] = MkCacheRow(e.source_hash, SizeOf(r.fs.tgt[p]),
                                                 r.fs.tmtime[p])]
                       ELSE cache]
    ELSE IF e.action = "Remove"
    THEN IF fs.tgt[p] # None
         THEN IF o1 = "err_remove"
              THEN [fs |-> fs, ok |-> FALSE, abort |-> TRUE, cache |-> cache]
              ELSE [fs |-> RemoveEmptyParents(SetFile(fs, "tgt", p, None), DirOf(p),
                                              failDir),
                    ok |-> TRUE, abort |-> FALSE, cache |-> Retain(cache, p)]
         ELSE [fs |-> fs, ok |-> TRUE, abort |-> FALSE, cache |-> Retain(cache, p)]
    ELSE [fs |-> fs, ok |-> TRUE, abort |-> FALSE, cache |-> cache]

\* AbortJob if the command saved the executor's cache before returning
AbortJob_SavesCache ==
    /\ pc' = "idle"
    /\ ret' = "Io"
    /\ abortedBy' = CurEntry.relative_path
    /\ failedActs' = failedActs \cup {CurEntry.relative_path}
    /\ actsAfterCancel' = IF cancelFlag THEN actsAfterCancel + 1 ELSE actsAfterCancel
    /\ editedSinceJob' = FALSE
    /\ fileCache' = pre_cache
    /\ UNCHANGED <<mode, pre_cache, cacheVec, diffVars, fsVars, dbVars, cancelFlag, diff,
                   execDiff, resolutions, files_completed, bytes_completed, events, clock,
                   edits, cp, par, keptConflicts, diffFresh, cancelInJob, preBaselines,
                   preLastSynced>>

\* Err(e) returned by `?` inside the loop body: the executor and, through the
\* `?` of the command, execute_device_sync end with the error
AbortJob ==
    /\ pc' = "idle"
    /\ ret' = "Io"
    /\ abortedBy' = CurEntry.relative_path
    /\ failedActs' = failedActs \cup {CurEntry.relative_path}
    /\ actsAfterCancel' = IF cancelFlag THEN actsAfterCancel + 1 ELSE actsAfterCancel
    /\ editedSinceJob' = FALSE
    /\ UNCHANGED <<mode, devVars, fsVars, dbVars, cancelFlag, diff, execDiff,
                   resolutions, files_completed, bytes_completed, events, clock,
                   edits, cp, par, keptConflicts, diffFresh, cancelInJob, preBaselines,
                   preLastSynced>>

\* one loop body of execute_device_sync
ExecActDevice ==
    /\ pc = "act"
    /\ mode = "device"
    /\ \E f \in Faults :
         LET Res(g) == DeviceAction(CurFs, pre_cache, CurEntry, O1(g), O2(g),
                                    FailDir(g))
         IN /\ Injected(f, Res(f), Res("ok"))
            /\ IF Res(f).abort
               THEN AbortJob
               ELSE /\ AfterAction(Res(f), Res(f).cache)
                    /\ cacheVec' = [cacheVec EXCEPT
                                      !.now = DeviceVec(@, CurEntry, Res(f))]

\* ExecDisconnected if the connection check came after SyncProgress
ExecDisconnected_AfterProgress ==
    /\ pc = "loop"
    /\ mode = "device"
    /\ files_completed < TotalFiles
    /\ ~cancelFlag
    /\ "root" \notin tgtDirs
    /\ events' = Append(events,
                   [type |-> "SyncProgress", files_completed |-> files_completed,
                    total_files |-> TotalFiles, bytes_completed |-> bytes_completed,
                    total_bytes |-> TotalBytes,
                    current_file |-> CurEntry.relative_path])
    /\ pc' = "idle"
    /\ ret' = "DeviceDisconnected"
    /\ editedSinceJob' = FALSE
    /\ UNCHANGED <<mode, devVars, fsVars, dbVars, cancelFlag, diff, execDiff, resolutions,
                   files_completed, bytes_completed, clock, envVars,
                   diffFresh, histVars>>

\* top of an iteration of execute_device_sync with the flag clear and the
\* device root gone: Err(DeviceDisconnected)
ExecDisconnected ==
    /\ pc = "loop"
    /\ mode = "device"
    /\ files_completed < TotalFiles
    /\ ~cancelFlag
    /\ "root" \notin tgtDirs
    /\ pc' = "idle"
    /\ ret' = "DeviceDisconnected"
    /\ editedSinceJob' = FALSE
    /\ UNCHANGED <<mode, devVars, fsVars, dbVars, cancelFlag, diff, execDiff, resolutions,
                   files_completed, bytes_completed, events, clock, envVars,
                   diffFresh, histVars>>

\* the end of execute_device_sync (SyncComplete, Ok) and the rest of the
\* command: update_last_synced and save_file_cache(post_cache)
ExecFinishDevice ==
    /\ pc = "loop"
    /\ mode = "device"
    /\ files_completed = TotalFiles
    /\ events' = Append(events, [type |-> "SyncComplete",
                                 files_synced |-> files_completed])
    /\ lastSynced' = clock
    /\ fileCache' = pre_cache
    /\ ret' = "Ok"
    /\ pc' = "idle"
    /\ editedSinceJob' = FALSE
    /\ UNCHANGED <<mode, pre_cache, cacheVec, diffVars, fsVars, baselines, cancelFlag, diff,
                   execDiff, resolutions, files_completed, bytes_completed, clock,
                   envVars, diffFresh, histVars>>

\* the end of the executor (SyncComplete, Ok(files_completed)) and the rest
\* of execute_sync: update_last_synced, build_post_sync_baselines and
\* save_baselines; walkOk = FALSE is a walk or hash error in the rebuild
ExecFinishSync ==
    /\ pc = "loop"
    /\ mode \in {"one_way", "two_way"}
    /\ files_completed = TotalFiles
    /\ events' = Append(events, [type |-> "SyncComplete",
                                 files_synced |-> files_completed])
    /\ lastSynced' = clock
    /\ \E walkOk \in BOOLEAN :
         /\ walkOk => "root" \in tgtDirs
         /\ IF walkOk
            THEN baselines' = BuildPostSyncBaselines(CurFs) /\ ret' = "Ok"
            ELSE baselines' = baselines /\ ret' = "Io"
    /\ pc' = "idle"
    /\ editedSinceJob' = FALSE
    /\ keptConflicts' = keptConflicts \cup
           {c.relative_path : c \in {x \in execDiff.conflicts :
                /\ x.conflict_type = "DeletedAndModified"
                /\ resolutions[x.relative_path] \in {"none", "Skip"}
                /\ srcFiles[x.relative_path] = x.source_hash
                /\ tgtFiles[x.relative_path] = x.target_hash}}
    /\ UNCHANGED <<mode, devVars, fsVars, cancelFlag, diff, execDiff, resolutions,
                   files_completed, bytes_completed, clock, edits, faults, cp, par,
                   diffFresh, histVars>>

Next ==
    \/ UserEdit
    \/ ComputeDiff
    \/ Cancel
    \/ ExecuteStart
    \/ ExecCancelled
    \/ ExecProgress
    \/ ExecActTwoWay
    \/ ExecFinishSync

Spec == Init /\ [][Next]_vars

\* ------------------------------------------------- two-way profile: claims
HasEntry(d, p) == \E i \in 1..Len(d.entries) : d.entries[i].relative_path = p
EntryAt(d, p) == d.entries[CHOOSE i \in 1..Len(d.entries) : d.entries[i].relative_path = p]
HasError(p) ==
    \E i \in 1..Len(events) : events[i].type = "SyncError" /\ events[i].file = p

\* the last job returned Ok, nothing was edited since, and compute_diff has
\* run again on the regenerated baselines
Rediffed == pc = "idle" /\ ret = "Ok" /\ ~editedSinceJob /\ diffFresh

\* C1: after a two-way execute_sync in which the copy of an Add or Update
\* entry failed with a per-file error, so that the two sides still differ for
\* the path, the next diff classifies the path as the same Add / Update in
\* the same direction (never Unchanged, never Remove).
C1_FailedCopyIsRetried ==
    \A p \in Paths :
        (/\ Rediffed
         /\ HasEntry(execDiff, p)
         /\ EntryAt(execDiff, p).action \in {"Add", "Update"}
         /\ HasError(p)
         /\ srcFiles[p] # tgtFiles[p])
        => /\ HasEntry(diff, p)
           /\ EntryAt(diff, p).action = EntryAt(execDiff, p).action
           /\ EntryAt(diff, p).direction = EntryAt(execDiff, p).direction

\* C2: a Conflict entry executed without a Resolution is a Conflict again
\* (entry and Conflict record) in the next diff, when neither side's file
\* changed.
C2_UnresolvedConflictRemains ==
    \A p \in Paths :
        (/\ Rediffed
         /\ HasEntry(execDiff, p)
         /\ EntryAt(execDiff, p).action = "Conflict"
         /\ resolutions[p] = "none"
         /\ srcFiles[p] = EntryAt(execDiff, p).source_hash
         /\ tgtFiles[p] = EntryAt(execDiff, p).target_hash)
        => /\ HasEntry(diff, p)
           /\ EntryAt(diff, p).action = "Conflict"
           /\ \E c \in diff.conflicts : c.relative_path = p

\* C3: executing a two-way sync with Resolution Skip for a conflicting path
\* leaves the source file, the target file and the stored FileBaseline of the
\* path as they were before the sync.
C3_SkipLeavesBaseline ==
    \A p \in Paths :
        (/\ pc = "idle" /\ ret = "Ok" /\ ~editedSinceJob
         /\ HasEntry(execDiff, p)
         /\ EntryAt(execDiff, p).action = "Conflict"
         /\ resolutions[p] = "Skip")
        => /\ srcFiles[p] = EntryAt(execDiff, p).source_hash
           /\ tgtFiles[p] = EntryAt(execDiff, p).target_hash
           /\ baselines[p] = preBaselines[p]

\* C6: whenever execute_sync ends with SyncCancelled, the stored baseline map
\* and last_synced_at are what they were before the call, however many
\* entries were already applied.
C6_CancelKeepsBaselines ==
    ret = "SyncCancelled" => baselines = preBaselines /\ lastSynced = preLastSynced

\* a job cancelled after it applied an entry that changed a tree, on a
\* profile whose stored baselines no longer describe the trees
C6_Witness ==
    /\ ret = "SyncCancelled"
    /\ files_completed > 0
    /\ ~HasError(execDiff.entries[1].relative_path)
    /\ baselines # BuildPostSyncBaselines(CurFs)

\* C11: in two-way mode a Remove entry (a path with a baseline, absent on one
\* side, the surviving side unchanged since the baseline) is executed by
\* deleting the surviving side's file: after the sync the path is absent on
\* both sides.
C11_RemovePropagates ==
    \A p \in Paths :
        (/\ mode = "two_way" /\ pc = "idle" /\ ret = "Ok" /\ ~editedSinceJob
         /\ HasEntry(execDiff, p)
         /\ EntryAt(execDiff, p).action = "Remove"
         /\ ~HasError(p))
        => srcFiles[p] = None /\ tgtFiles[p] = None

\* ------------------------------------------- two-way diff as a function
\* the rows save_baselines can have stored: at least one side was present
BaselineRows ==
    {NoBaseline} \cup
    {MkBaseline(s, t) : <<s, t>> \in (OptHash \X OptHash) \ {<<None, None>>}}

\* compute_diff of a two-way profile on any pair of trees and any stored
\* baseline map
InitDiff ==
    /\ mode = "two_way"
    /\ srcFiles \in [Paths -> OptHash]
    /\ tgtFiles \in [Paths -> OptHash]
    /\ tgtMtime = [p \in Paths |-> MtimeOf(tgtFiles[p])]
    /\ tgtOthers = {"/"}
    /\ baselines \in [Paths -> BaselineRows]
    /\ diff = EmptyDiff
    /\ diffFresh = FALSE
    /\ fileCache = NoCache
    /\ libTracks = NoTracks
    /\ InitCommon
    /\ cp = NoCopy
    /\ par = NoPar

NextDiff == ComputeDiff

SpecDiff == InitDiff /\ [][NextDiff]_vars

\* the decision table of the two-way diff over (present on source, present
\* on target, baseline present, sc, tc, hashes equal); "any" leaves the
\* direction open where the table names none
TableRow(ps, pt, pb, sc, tc, eq) ==
    CASE ps /\ pt /\ pb /\ ~sc /\ ~tc -> <<"Unchanged", "Both", "none">>
      [] ps /\ pt /\ pb /\ sc /\ ~tc -> <<"Update", "SourceToTarget", "none">>
      [] ps /\ pt /\ pb /\ ~sc /\ tc -> <<"Update", "TargetToSource", "none">>
      [] ps /\ pt /\ pb /\ sc /\ tc ->
           IF eq THEN <<"Unchanged", "any", "none">>
           ELSE <<"Conflict", "any", "BothModified">>
      [] ps /\ pt /\ ~pb ->
           IF eq THEN <<"Unchanged", "any", "none">>
           ELSE <<"Conflict", "any", "FirstSyncDiffers">>
      [] ps /\ ~pt /\ ~pb -> <<"Add", "SourceToTarget", "none">>
      [] ~ps /\ pt /\ ~pb -> <<"Add", "TargetToSource", "none">>
      [] ps /\ ~pt /\ pb ->
           IF sc THEN <<"Conflict", "any", "DeletedAndModified">>
           ELSE <<"Remove", "SourceToTarget", "none">>
      [] ~ps /\ pt /\ pb ->
           IF tc THEN <<"Conflict", "any", "DeletedAndModified">>
           ELSE <<"Remove", "TargetToSource", "none">>
      [] ~ps /\ ~pt /\ pb -> <<"Unchanged", "any", "none">>

ConflictTypesOf(d, p) ==
    {c.conflict_type : c \in {x \in d.conflicts : x.relative_path = p}}

\* C10: compute_two_way_diff gives every path of keys(source) \cup
\* keys(target) \cup keys(baselines) exactly one entry, with the action,
\* direction and conflict type of the decision table, and no entry to any
\* other path.
C10_DecisionTable ==
    diffFresh =>
      \A p \in Paths :
        LET s == srcFiles[p]
            t == tgtFiles[p]
            b == baselines[p]
            n == Cardinality({i \in 1..Len(diff.entries) :
                                 diff.entries[i].relative_path = p})
        IN IF s = None /\ t = None /\ ~b.present
           THEN n = 0 /\ ConflictTypesOf(diff, p) = {}
           ELSE LET row == TableRow(s # None, t # None, b.present,
                                    s # b.source_hash, t # b.target_hash, s = t)
                    e == EntryAt(diff, p)
                IN /\ n = 1
                   /\ e.action = row[1]
                   /\ row[2] # "any" => e.direction = row[2]
                   /\ ConflictTypesOf(diff, p) =
                        IF row[3] = "none" THEN {} ELSE {row[3]}

\* a diff with a DeletedAndModified conflict on one path, caused by a side
\* the baseline recorded as absent, and an Update towards the source on the
\* other
C10_Witness ==
    /\ diffFresh
    /\ \E p \in Paths :
         /\ ConflictTypesOf(diff, p) = {"DeletedAndModified"}
         /\ baselines[p].source_hash = None
         /\ srcFiles[p] # None
    /\ \E p \in Paths :
         /\ HasEntry(diff, p)
         /\ EntryAt(diff, p).action = "Update"
         /\ EntryAt(diff, p).direction = "TargetToSource"

\* ------------------------------------------- one job of each executor
Modes == {"one_way", "two_way", "device"}

\* the catalog rows of the library files: size and mtime as scanned, the
\* hash filled in or not
TracksOf(src, known) ==
    [p \in Paths |->
        IF src[p] = None THEN NoTrack
        ELSE MkTrack(SizeOf(src[p]), MtimeOf(src[p]),
                     IF known THEN src[p] ELSE None, src[p])]

\* a profile of either mode, or a device that was never synced, over any
\* pair of trees; the target root may hold unwalked entries, and so may its
\* parent (the two-way executor never looks at directories)
InitExec ==
    /\ mode \in Modes
    /\ srcFiles \in [Paths -> OptHash]
    /\ tgtFiles \in [Paths -> OptHash]
    /\ tgtMtime = [p \in Paths |-> MtimeOf(tgtFiles[p])]
    /\ tgtOthers \in {{"/"}, {"/", "root"}, {"/", "mnt"}}
    /\ baselines \in [Paths -> {NoBaseline, MkBaseline(1, 1)}]
    /\ mode # "two_way" => baselines = NoBaselines
    /\ mode = "two_way" => tgtOthers = {"/"}
    /\ \E known \in BOOLEAN :
         libTracks = IF mode = "device" THEN TracksOf(srcFiles, known) ELSE NoTracks
    /\ diff = EmptyDiff
    /\ diffFresh = FALSE
    /\ fileCache = NoCache
    /\ InitCommon
    /\ cp = NoCopy
    /\ par = NoPar

NextExec ==
    \/ ComputeDiff
    \/ ComputeDeviceDiffCmd
    \/ Cancel
    \/ ExecuteStart
    \/ ExecCancelled
    \/ ExecDisconnected
    \/ ExecProgress
    \/ ExecActOneWay
    \/ ExecActTwoWay
    \/ ExecActDevice
    \/ ExecFinishSync
    \/ ExecFinishDevice

SpecExec == InitExec /\ [][NextExec]_vars

\* C4 as stated: whenever cancel() was called while a job was running, at
\* most one more per-file action is performed and the job returns
\* SyncCancelled.
C4_CancelEndsJobCancelled ==
    (pc = "idle" /\ cancelInJob) => (actsAfterCancel <= 1 /\ ret = "SyncCancelled")

\* C4 as the executors implement it: after cancel() at most one more
\* per-file action is performed, and a job that was cancelled while running
\* returns SyncCancelled unless no iteration was left to notice the flag:
\* the action in flight was the last one, or its error ended the executor.
C4_CancelBoundsActions ==
    /\ actsAfterCancel <= 1
    /\ (pc = "idle" /\ cancelInJob /\ ret # "SyncCancelled")
         => (files_completed = TotalFiles \/ abortedBy # "nil")

\* a job of two entries cancelled while its first action was in flight: the
\* action is completed and the second entry is never attempted
C4_Witness ==
    /\ pc = "idle"
    /\ cancelInJob
    /\ ret = "SyncCancelled"
    /\ actsAfterCancel = 1
    /\ files_completed = 1
    /\ TotalFiles = 2

\* C5: a job returns SyncCancelled only if cancel_sync was called after the
\* job started (the token is reset at the start of every job).
C5_CancelTokenReset == ret = "SyncCancelled" => cancelInJob

\* C7: every per-file action that hit a filesystem error is reported by a
\* SyncError event for its path and does not end the executor with an error.
C7_PerFileErrorContinues ==
    \A p \in failedActs : HasError(p) /\ abortedBy # p

\* C8: in one-way and device mode the target (device) root and its parent
\* exist after any sequence of Remove actions.
C8_RootSurvivesRemove ==
    mode \in {"one_way", "device"} => {"root", "mnt"} \subseteq tgtDirs

\* C13: the entries of the DiffResult of every diff variant are in strictly
\* ascending relative_path order (sorted, no path twice).
C13_EntriesAscending ==
    \A i, j \in 1..Len(diff.entries) :
        i < j => PathLess(diff.entries[i].relative_path, diff.entries[j].relative_path)

\* a device diff of two entries
C13_Witness ==
    /\ mode = "device"
    /\ diffFresh
    /\ Len(diff.entries) = 2
    /\ diff.entries[1].action = "Remove"
    /\ diff.entries[2].action = "Add"

\* --------------------------------------------- device diff as a function
Mtimes == 1..NumHashes

\* the inputs of compute_device_diff for one path: any catalog row of the
\* library file, any device file and any cached row for the first path; the
\* other paths are tracks without a stored hash and device files that carry
\* the mtime of their content
TrackRows(p, c) ==
    IF c = None THEN {NoTrack}
    ELSE IF p = PathSeq[1]
    THEN {MkTrack(SizeOf(c), m, h, c) : m \in Mtimes, h \in {None, c}}
    ELSE {MkTrack(SizeOf(c), MtimeOf(c), None, c)}
DeviceMtimes(p, c) ==
    IF c = None THEN {0}
    ELSE IF p = PathSeq[1] THEN Mtimes ELSE {MtimeOf(c)}
CacheRows(p) ==
    IF p = PathSeq[1]
    THEN {NoCacheRow} \cup
         {MkCacheRow(h, SizeOf(c), m) : h \in OptHash, c \in Hashes, m \in Mtimes}
    ELSE {NoCacheRow}

InitDev ==
    /\ mode = "device"
    /\ srcFiles \in [Paths -> OptHash]
    /\ tgtFiles \in [Paths -> OptHash]
    /\ tgtMtime \in [Paths -> 0..NumHashes]
    /\ \A p \in Paths : tgtMtime[p] \in DeviceMtimes(p, tgtFiles[p])
    /\ libTracks \in [Paths -> UNION {TrackRows(p, c) : p \in Paths, c \in OptHash}]
    /\ \A p \in Paths : libTracks[p] \in TrackRows(p, srcFiles[p])
    /\ fileCache \in [Paths -> UNION {CacheRows(p) : p \in Paths}]
    /\ \A p \in Paths : fileCache[p] \in CacheRows(p)
    /\ tgtOthers = {"/"}
    /\ baselines = NoBaselines
    /\ diff = EmptyDiff
    /\ diffFresh = FALSE
    /\ InitCommon
    /\ cp = NoCopy
    /\ par = NoPar

NextDev == ComputeDeviceDiffCmd

SpecDev == InitDev /\ [][NextDev]_vars

\* C9: every row of the new cache has the empty hash, or the hash of a
\* device file hashed in this run, or the hash of the prior cache row of the
\* path, whose (file_size, modified_at) equal the (size, mtime) of the live
\* device file.
C9_CacheConsistency ==
    diffFresh =>
      \A p \in Paths :
        fileCache[p].present =>
          \/ fileCache[p].hash = None
          \/ p \in hashedDev
          \/ /\ priorCache[p].present
             /\ priorCache[p].hash = fileCache[p].hash
             /\ priorCache[p].file_size = TargetWalk[p].size
             /\ priorCache[p].modified_at = TargetWalk[p].modified

\* ------------------------------------------------------ one-way profile
\* a one-way profile on any pair of trees, the target files carrying any
\* mtime: compute_diff and execute_sync, not cancelled
InitOneWay ==
    /\ mode = "one_way"
    /\ srcFiles \in [Paths -> OptHash]
    /\ tgtFiles \in [Paths -> OptHash]
    /\ tgtMtime \in [Paths -> 0..NumHashes]
    /\ \A p \in Paths : tgtMtime[p] \in (IF tgtFiles[p] = None THEN {0} ELSE Mtimes)
    /\ tgtOthers = {"/"}
    /\ baselines = NoBaselines
    /\ libTracks = NoTracks
    /\ fileCache = NoCache
    /\ diff = EmptyDiff
    /\ diffFresh = FALSE
    /\ InitCommon
    /\ cp = NoCopy
    /\ par = NoPar

NextOneWay ==
    \/ ComputeDiff
    \/ ExecuteStart
    \/ ExecProgress
    \/ ExecActOneWay
    \/ ExecFinishSync

SpecOneWay == InitOneWay /\ [][NextOneWay]_vars

\* the classification of one path by the one-way diff: action and whether
\* the entry carries content hashes
OneWayRow(s, t) ==
    IF s.present /\ ~t.present THEN <<"Add", TRUE>>
    ELSE IF ~s.present THEN <<"Remove", FALSE>>
    ELSE IF s.size = t.size /\ s.modified = t.modified THEN <<"Unchanged", FALSE>>
    ELSE IF s.content = t.content THEN <<"Unchanged", TRUE>>
    ELSE <<"Update", TRUE>>

\* C12: compute_one_way_diff gives every path of the union of the two walks
\* exactly one entry: Add for source-only, Remove for target-only, Unchanged
\* without hashing when (size, mtime) are equal, otherwise Unchanged or
\* Update by the content hashes; always SourceToTarget, never Conflict, and
\* no entry for any other path.
C12_OneWayTable ==
    (mode = "one_way" /\ diffFresh) =>
      \A p \in Paths :
        LET s == SourceWalk[p]
            t == TargetWalk[p]
            n == Cardinality({i \in 1..Len(diff.entries) :
                                 diff.entries[i].relative_path = p})
        IN IF ~s.present /\ ~t.present THEN n = 0
           ELSE LET row == OneWayRow(s, t)
                    e == EntryAt(diff, p)
                IN /\ n = 1
                   /\ e.action = row[1]
                   /\ e.direction = "SourceToTarget"
                   /\ row[1] = "Unchanged" =>
                        (row[2] <=> (e.source_hash # None /\ e.target_hash # None))
                   /\ row[1] = "Update" =>
                        (e.source_hash = s.content /\ e.target_hash = t.content)

\* a diff with a path left Unchanged by the probe although the contents
\* differ, and a path of equal sizes classified Update by its hashes
C12_Witness ==
    /\ mode = "one_way"
    /\ diffFresh
    /\ \E p \in Paths :
         /\ HasEntry(diff, p)
         /\ EntryAt(diff, p).action = "Unchanged"
         /\ EntryAt(diff, p).source_hash = None
         /\ srcFiles[p] # tgtFiles[p]
    /\ \E p \in Paths :
         /\ HasEntry(diff, p)
         /\ EntryAt(diff, p).action = "Update"
         /\ EntryAt(diff, p).source_size = EntryAt(diff, p).target_size

\* the executor of the last job ran to its end (SyncComplete) and nothing
\* was edited since; ret is "Io" when the post-sync walk failed
JobCompleted ==
    pc = "idle" /\ ret \in {"Ok", "Io"} /\ abortedBy = "nil" /\ ~editedSinceJob

\* the path was left Unchanged by the (size, mtime) probe alone
ProbeUnchanged(p) ==
    /\ HasEntry(execDiff, p)
    /\ EntryAt(execDiff, p).action = "Unchanged"
    /\ EntryAt(execDiff, p).source_hash = None

\* C14 as stated: after a one-way diff was computed and executed to
\* completion, the target holds exactly the source's paths, each with the
\* source's content.
C14_TargetMirrorsSource ==
    (mode = "one_way" /\ JobCompleted) =>
        \A p \in Paths : tgtFiles[p] = srcFiles[p]

\* C14 as implemented: after a one-way diff was computed and executed to
\* completion, every path without a SyncError that the diff did not leave
\* Unchanged on the (size, mtime) probe alone is present on the target
\* exactly if it is present on the source, with the source's content.
C14_MirrorExceptProbeAndErrors ==
    (mode = "one_way" /\ JobCompleted) =>
        \A p \in Paths :
            (~HasError(p) /\ ~ProbeUnchanged(p)) => tgtFiles[p] = srcFiles[p]

\* a completed one-way job that replaced one target file and removed another
C14_Witness ==
    /\ mode = "one_way"
    /\ JobCompleted
    /\ Len(execDiff.entries) = 2
    /\ execDiff.entries[1].action = "Update"
    /\ execDiff.entries[2].action = "Remove"
    /\ \A p \in Paths : ~HasError(p) /\ tgtFiles[p] = srcFiles[p]

\* C15: after a one-way diff was computed and executed without a per-file
\* error, compute_diff on the unchanged trees succeeds and reports no Add,
\* Remove or Update, and as many Unchanged as the source has files.
C15_RediffIsClean ==
    (mode = "one_way" /\ JobCompleted /\ \A p \in Paths : ~HasError(p)) =>
        /\ "root" \in tgtDirs
        /\ \A order \in IterOrders :
             LET d == ComputeOneWayDiff(SourceWalk, TargetWalk, order)
             IN /\ d.total_add = 0
                /\ d.total_remove = 0
                /\ d.total_update = 0
                /\ d.total_unchanged = Cardinality({p \in Paths : srcFiles[p] # None})

\* C16: after a two-way sync that returned Ok with no SyncError and with
\* every conflict resolved KeepSource, KeepTarget or KeepBoth, a two-way
\* diff against the saved baselines reports no Add, Remove, Update or
\* Conflict.
C16_TwoWayRediffIsClean ==
    (/\ mode = "two_way" /\ pc = "idle" /\ ret = "Ok" /\ ~editedSinceJob
     /\ \A p \in Paths : ~HasError(p)
     /\ \A c \in execDiff.conflicts :
            resolutions[c.relative_path] \in {"KeepSource", "KeepTarget", "KeepBoth"})
    => \A order \in IterOrders :
         LET d == ComputeTwoWayDiff(CurFs, baselines, order)
         IN /\ d.total_add = 0
            /\ d.total_remove = 0
            /\ d.total_update = 0
            /\ d.total_conflict = 0

\* the SyncProgress events among the first n events
ProgressBefore(n) == {j \in 1..n : events[j].type = "SyncProgress"}

\* C17: in the events of one executor run SyncStarted comes first and once;
\* a SyncError directly follows the SyncProgress of the same entry; the
\* SyncProgress of the k-th entry is sent while the counter is k - 1, so the
\* counter never runs ahead of the SyncProgress events; SyncComplete is the
\* last event.
C17_EventOrder ==
    /\ events # <<>> => events[1].type = "SyncStarted"
    /\ \A i \in 2..Len(events) : events[i].type # "SyncStarted"
    /\ \A i \in 1..Len(events) :
         /\ events[i].type = "SyncError" =>
              /\ i > 1
              /\ events[i - 1].type = "SyncProgress"
              /\ events[i - 1].current_file = events[i].file
         /\ events[i].type = "SyncProgress" =>
              /\ events[i].files_completed = Cardinality(ProgressBefore(i - 1))
              /\ events[i].current_file =
                   Actionable(mode, execDiff)[events[i].files_completed + 1].relative_path
         /\ events[i].type = "SyncComplete" => i = Len(events)
    /\ events # <<>> =>
         /\ files_completed <= Cardinality(ProgressBefore(Len(events)))
         /\ pc = "act" => files_completed + 1 = Cardinality(ProgressBefore(Len(events)))
         /\ pc = "loop" => files_completed = Cardinality(ProgressBefore(Len(events)))

\* a run of two entries, the first of which failed, has sent SyncComplete
C17_Witness ==
    /\ Len(events) = 5
    /\ events[3].type = "SyncError"
    /\ events[4].type = "SyncProgress"
    /\ events[5].type = "SyncComplete"
    /\ files_completed = 2

\* the device executor is at the top of an entry's iteration and the device
\* root does not exist
AtTopRootGone ==
    /\ mode = "device"
    /\ pc = "loop"
    /\ files_completed < TotalFiles
    /\ "root" \notin tgtDirs

\* the step ends the job with error e: no event, no file action, no change
\* of the executor's cache or of the stored cache
AbortsWith(e) ==
    /\ pc' = "idle"
    /\ ret' = e
    /\ events' = events
    /\ UNCHANGED <<fsVars, fileCache, pre_cache, files_completed, lastSynced>>

\* DeviceDisconnected is the result of jobs whose device root is gone only,
\* and such a job has sent no SyncComplete
DisconnectedOnlyIfRootGone ==
    ret = "DeviceDisconnected" =>
        /\ mode = "device"
        /\ "root" \notin tgtDirs
        /\ \A i \in 1..Len(events) : events[i].type # "SyncComplete"

\* C18 as stated: when the device root does not exist at the top of an
\* entry's iteration, the executor's step returns DeviceDisconnected with no
\* SyncProgress, no file action, no cache update and no SyncComplete; and
\* DeviceDisconnected is returned only when the root is gone.
C18_RootGoneReturnsDisconnected ==
    /\ [][(AtTopRootGone /\ pc' # pc) => AbortsWith("DeviceDisconnected")]_vars
    /\ []DisconnectedOnlyIfRootGone

\* C18 as implemented: the cancel flag is read before the connection check,
\* so the step returns SyncCancelled when cancel was requested and
\* DeviceDisconnected otherwise; in both cases with no SyncProgress, no file
\* action, no cache update and no SyncComplete; and DeviceDisconnected is
\* returned only when the root is gone.
C18_RootGoneAborts ==
    /\ [][(AtTopRootGone /\ pc' # pc) =>
            AbortsWith(IF cancelFlag THEN "SyncCancelled" ELSE "DeviceDisconnected")]_vars
    /\ []DisconnectedOnlyIfRootGone

\* a device job ended DeviceDisconnected after its first entry
C18_Witness ==
    /\ mode = "device"
    /\ pc = "idle"
    /\ ret = "DeviceDisconnected"
    /\ files_completed = 1
    /\ TotalFiles = 2
    /\ Len(events) = 2

\* ------------------------------------------------- copy_file_safe: steps
\* what an earlier call that failed can have left at the sidecar path
Leftovers ==
    {Absent} \cup {MkBlocks(SubSeq(FullFile(h).blocks, 1, n)) : h \in Hashes, n \in 0..NumBlocks}

\* one call copy_file_safe(src, dst) of a source file of content h, on a
\* destination directory in any state
InitCopy ==
    /\ mode = "one_way"
    /\ srcFiles = [p \in Paths |-> None]
    /\ tgtFiles = [p \in Paths |-> None]
    /\ tgtMtime = [p \in Paths |-> 0]
    /\ tgtOthers = {"/"}
    /\ baselines = NoBaselines
    /\ libTracks = NoTracks
    /\ fileCache = NoCache
    /\ diff = EmptyDiff
    /\ diffFresh = FALSE
    /\ InitCommon
    /\ par = NoPar
    /\ \E d \in Paths, h \in Hashes, dir \in BOOLEAN :
       \E old \in (IF dir THEN {Absent} \cup {FullFile(g) : g \in Hashes} ELSE {Absent}),
          left \in (IF dir THEN Leftovers ELSE {Absent}) :
         cp = [pc |-> "mkdir", dst |-> d, src |-> h, parent |-> dir,
               files |-> [q \in CopyPaths |->
                            IF q = d THEN old
                            ELSE IF q = WithExtension(d) THEN left
                            ELSE Absent],
               old |-> old, mtime_set |-> FALSE]

\* Err(e) returned by `?`
CopyFails == cp' = [cp EXCEPT !.pc = "err"]

\* std::fs::create_dir_all(parent)?
CopyMkdir ==
    /\ cp.pc = "mkdir"
    /\ \/ cp' = [cp EXCEPT !.pc = "open", !.parent = TRUE]
       \/ CopyFails
    /\ UNCHANGED <<syncVars, cancelFlag, par>>

\* std::fs::copy(src, &tmp_path)?, opening: the file at tmp_path is created
\* or truncated
CopyOpen ==
    /\ cp.pc = "open"
    /\ \/ cp' = [cp EXCEPT !.pc = "write",
                           !.files[WithExtension(cp.dst)] = MkBlocks(<<>>)]
       \/ CopyFails
    /\ UNCHANGED <<syncVars, cancelFlag, par>>

\* std::fs::copy(src, &tmp_path)?, copying: one more block of the source is
\* written to the file at tmp_path
CopyWrite ==
    /\ cp.pc = "write"
    /\ LET tmp == WithExtension(cp.dst)
           b == Append(cp.files[tmp].blocks, cp.src)
       IN \/ cp' = [cp EXCEPT !.files[tmp] = MkBlocks(b),
                              !.pc = IF Len(b) = NumBlocks THEN "fsync" ELSE "write"]
          \/ CopyFails
    /\ UNCHANGED <<syncVars, cancelFlag, par>>

\* File::open(&tmp_path)?.sync_all()?
CopyFsync ==
    /\ cp.pc = "fsync"
    /\ \/ cp' = [cp EXCEPT !.pc = "rename"]
       \/ CopyFails
    /\ UNCHANGED <<syncVars, cancelFlag, par>>

\* std::fs::rename(&tmp_path, dst)?: the destination is replaced in one step
CopyRename ==
    /\ cp.pc = "rename"
    /\ LET tmp == WithExtension(cp.dst)
           moved == cp.files[tmp]
       IN \/ cp' = [cp EXCEPT !.files = [q \in CopyPaths |->
                                           IF q = cp.dst THEN moved
                                           ELSE IF q = tmp THEN Absent
                                           ELSE cp.files[q]],
                              !.pc = "meta"]
          \/ CopyFails
    /\ UNCHANGED <<syncVars, cancelFlag, par>>

\* std::fs::metadata(src)?
CopyMeta ==
    /\ cp.pc = "meta"
    /\ \/ cp' = [cp EXCEPT !.pc = "mtime"]
       \/ CopyFails
    /\ UNCHANGED <<syncVars, cancelFlag, par>>

\* let _ = filetime_set(dst, mtime); Ok(())
CopySetMtime ==
    /\ cp.pc = "mtime"
    /\ \E set \in BOOLEAN : cp' = [cp EXCEPT !.pc = "ok", !.mtime_set = set]
    /\ UNCHANGED <<syncVars, cancelFlag, par>>

NextCopy ==
    \/ CopyMkdir
    \/ CopyOpen
    \/ CopyWrite
    \/ CopyFsync
    \/ CopyRename
    \/ CopyMeta
    \/ CopySetMtime

SpecCopy == InitCopy /\ [][NextCopy]_vars

\* C19: at every point of a call of copy_file_safe, failed or not, the
\* destination path holds what it held before the call (a complete file or
\* nothing) until the rename, and the complete source content from the
\* rename on; it never holds part of one content or blocks of two.
C19_DestinationAtomic ==
    cp.pc # "none" =>
        /\ cp.files[cp.dst] \in {cp.old, FullFile(cp.src)}
        /\ cp.pc \in {"mkdir", "open", "write", "fsync", "rename"} =>
              cp.files[cp.dst] = cp.old
        /\ cp.pc \in {"meta", "mtime", "ok"} => cp.files[cp.dst] = FullFile(cp.src)

\* the copy failed half-way: the sidecar holds part of the source, the
\* destination still holds its previous, different content
C19_Witness ==
    /\ cp.pc = "err"
    /\ cp.old.exists
    /\ cp.old # FullFile(cp.src)
    /\ cp.files[cp.dst] = cp.old
    /\ cp.files[WithExtension(cp.dst)].exists
    /\ Len(cp.files[WithExtension(cp.dst)].blocks) = 1

\* ------------------------------------------------- parallel jobs: steps
\* the process after lib.rs run(): one CancelToken is managed for all
\* commands; each job has up to MaxJobs actionable entries
InitPar ==
    /\ mode = "two_way"
    /\ srcFiles = [p \in Paths |-> None]
    /\ tgtFiles = [p \in Paths |-> None]
    /\ tgtMtime = [p \in Paths |-> 0]
    /\ tgtOthers = {"/"}
    /\ baselines = NoBaselines
    /\ libTracks = NoTracks
    /\ fileCache = NoCache
    /\ diff = EmptyDiff
    /\ diffFresh = FALSE
    /\ InitCommon
    /\ cp = NoCopy
    /\ \E n \in [Jobs -> 0..MaxJobs] : par = [NoPar EXCEPT !.todo = n]

\* execute_sync / execute_device_sync of job j up to the loop: token.flag()
\* clones the Arc of the one managed CancelToken
ParStart(j) ==
    /\ par.pc[j] = "idle"
    /\ par.ret[j] = "none"
    /\ par' = [par EXCEPT !.pc[j] = "loop", !.ret[j] = "running",
                           !.clear_at_start = IF cancelFlag THEN @ ELSE @ \cup {j}]
    /\ UNCHANGED <<syncVars, cancelFlag, cp>>

\* cancel_sync() called to stop job j: the command has no argument and
\* stores true in the one flag
ParCancel(j) ==
    /\ par.pc[j] = "loop"
    /\ cancelFlag' = TRUE
    /\ par' = [par EXCEPT !.aimed = @ \cup {j}]
    /\ UNCHANGED <<syncVars, cp>>

\* top of an iteration of job j with the flag set: Err(SyncCancelled)
ParCancelled(j) ==
    /\ par.pc[j] = "loop"
    /\ par.todo[j] > 0
    /\ cancelFlag
    /\ par' = [par EXCEPT !.pc[j] = "idle", !.ret[j] = "SyncCancelled"]
    /\ UNCHANGED <<syncVars, cancelFlag, cp>>

\* one iteration of job j with the flag clear: the entry's action on the
\* job's own trees
ParStep(j) ==
    /\ par.pc[j] = "loop"
    /\ par.todo[j] > 0
    /\ ~cancelFlag
    /\ par' = [par EXCEPT !.todo[j] = @ - 1]
    /\ UNCHANGED <<syncVars, cancelFlag, cp>>

\* the loop of job j is over: SyncComplete, Ok
ParFinish(j) ==
    /\ par.pc[j] = "loop"
    /\ par.todo[j] = 0
    /\ par' = [par EXCEPT !.pc[j] = "idle", !.ret[j] = "Ok"]
    /\ UNCHANGED <<syncVars, cancelFlag, cp>>

NextPar ==
    \E j \in Jobs :
        \/ ParStart(j)
        \/ ParCancel(j)
        \/ ParCancelled(j)
        \/ ParStep(j)
        \/ ParFinish(j)

SpecPar == InitPar /\ [][NextPar]_vars

\* C20: of two jobs for disjoint profiles/devices running in parallel, a
\* job that started with the cancel flag clear returns SyncCancelled only if
\* a cancel request was aimed at it.
C20_CancelHitsOnlyItsJob ==
    \A j \in Jobs :
        (par.ret[j] = "SyncCancelled" /\ j \in par.clear_at_start) => j \in par.aimed

\* C21: when a job completes with at least one SyncError, the files_synced
\* of SyncComplete counts the entries whose action succeeded only, so it is
\* less than the total_files of SyncStarted.
C21_FilesSyncedCountsSuccesses ==
    (/\ events # <<>>
     /\ events[Len(events)].type = "SyncComplete"
     /\ \E i \in 1..Len(events) : events[i].type = "SyncError")
    => LET errs == {i \in 1..Len(events) : events[i].type = "SyncError"}
       IN /\ events[Len(events)].files_synced = events[1].total_files - Cardinality(errs)
          /\ events[Len(events)].files_synced < events[1].total_files

\* the entries the two-way executor is said to act on: Add, Update, Remove,
\* and Conflict with a resolution
SaidActionable ==
    {i \in 1..Len(execDiff.entries) :
        \/ execDiff.entries[i].action \in {"Add", "Update", "Remove"}
        \/ /\ execDiff.entries[i].action = "Conflict"
           /\ resolutions[execDiff.entries[i].relative_path] # "none"}

\* C22: in a two-way job total_files counts the Add, Update and Remove
\* entries and the resolved Conflict entries only, files_synced of
\* SyncComplete is that number, and no SyncProgress names an Unchanged entry
\* or an unresolved Conflict entry.
C22_ActionableSet ==
    (mode = "two_way" /\ events # <<>>) =>
        /\ events[1].total_files = Cardinality(SaidActionable)
        /\ \A i \in 1..Len(events) :
             /\ events[i].type = "SyncComplete" =>
                  events[i].files_synced = Cardinality(SaidActionable)
             /\ events[i].type = "SyncProgress" =>
                  \E k \in SaidActionable :
                      execDiff.entries[k].relative_path = events[i].current_file

\* C23: in compute_device_diff, for a path whose track and device file
\* differ in (size, mtime) and whose cached row has the empty hash, the device
\* file is hashed, the entry's device-side hash is the hash of the file, and
\* the new cache row carries that hash.
C23_EmptyHashRefreshed ==
    (mode = "device" /\ diffFresh) =>
      \A p \in Paths :
        (/\ libTracks[p].present
         /\ TargetWalk[p].present
         /\ ~(libTracks[p].file_size = TargetWalk[p].size
              /\ libTracks[p].modified_at = TargetWalk[p].modified)
         /\ priorCache[p].present
         /\ priorCache[p].hash = None)
        => /\ p \in hashedDev
           /\ EntryAt(diff, p).target_hash = TargetWalk[p].content
           /\ fileCache[p].hash = TargetWalk[p].content

\* the rows of a Vec for one path
RowsOf(v, p) == SelectSeq(v, LAMBDA c : c.relative_path = p)

\* the entry of the executed diff for the path has one of the actions
ActedAs(p, actions) ==
    HasEntry(execDiff, p) /\ EntryAt(execDiff, p).action \in actions

KeepBothApplied ==
    /\ mode = "two_way"
    /\ pc = "act"
    /\ pc' = "loop"
    /\ CurEntry.action = "Conflict"
    /\ CurEntry.relative_path = "d/a.flac"
    /\ resolutions["d/a.flac"] = "KeepBoth"
    /\ srcFiles["d/a.flac"] # None
    /\ tgtFiles["d/a.flac"] # None
    /\ events' = events

\* C25: applying KeepBoth to a conflict whose file exists on both sides
\* leaves the source's content at the path on both sides and the former
\* target content at <stem>_conflict<.ext> on both sides.
C25_KeepBoth ==
    [][KeepBothApplied =>
          /\ tgtFiles'["d/a.flac"] = srcFiles["d/a.flac"]
          /\ tgtFiles'["d/a_conflict.flac"] = tgtFiles["d/a.flac"]
          /\ srcFiles'["d/a.flac"] = srcFiles["d/a.flac"]
          /\ srcFiles'["d/a_conflict.flac"] = tgtFiles["d/a.flac"]]_vars

\* KeepBoth has just been applied to differing files without an error
C25_Witness ==
    /\ mode = "two_way"
    /\ pc = "loop"
    /\ files_completed = 1
    /\ execDiff.entries[1].action = "Conflict"
    /\ execDiff.entries[1].relative_path = "d/a.flac"
    /\ execDiff.entries[1].source_hash # None
    /\ execDiff.entries[1].target_hash # None
    /\ resolutions["d/a.flac"] = "KeepBoth"
    /\ ~HasError("d/a.flac")
    /\ srcFiles["d/a_conflict.flac"] = execDiff.entries[1].target_hash
    /\ tgtFiles["d/a.flac"] = execDiff.entries[1].source_hash

\* C26: after execute_sync returned Ok (and before the trees are edited
\* again) the stored baselines have a row exactly for the paths present on at
\* least one side, each side's hash is the content hash of that side's file or
\* None when the file is absent, and no row has None on both sides.
C26_BaselinesArePostSyncState ==
    (mode \in {"one_way", "two_way"} /\ pc = "idle" /\ ret = "Ok" /\ ~editedSinceJob) =>
        \A p \in Paths :
            /\ baselines[p].present <=> (srcFiles[p] # None \/ tgtFiles[p] # None)
            /\ baselines[p].present =>
                 /\ baselines[p].source_hash = srcFiles[p]
                 /\ baselines[p].target_hash = tgtFiles[p]
                 /\ (baselines[p].source_hash # None \/ baselines[p].target_hash # None)

\* a sync returned Ok leaving one path on the source only and another on
\* both sides
C26_Witness ==
    /\ mode = "two_way" /\ pc = "idle" /\ ret = "Ok" /\ ~editedSinceJob
    /\ \E p, q \in Paths :
         /\ baselines[p].present
         /\ baselines[p].source_hash # None
         /\ baselines[p].target_hash = None
         /\ baselines[q].present
         /\ baselines[q].source_hash # None
         /\ baselines[q].target_hash # None

\* C27: a file that a completed job left as a DeletedAndModified conflict,
\* unresolved or skipped, still exists on its side after any later
\* compute_diff and execute_sync on the unedited trees, unless a KeepSource
\* or KeepTarget resolution of a Conflict entry chose the deletion.
C27_KeptConflictSurvives ==
    \A p \in keptConflicts :
        \/ srcFiles[p] # None
        \/ tgtFiles[p] # None
        \/ /\ HasEntry(execDiff, p)
           /\ EntryAt(execDiff, p).action = "Conflict"
           /\ resolutions[p] \in {"KeepSource", "KeepTarget"}

\* the stored cache has exactly the rows the command loaded at its start
CacheAsLoaded ==
    /\ \A p \in Paths : fileCache[p].present <=> Len(RowsOf(cacheVec.at_start, p)) = 1
    /\ \A i \in 1..Len(cacheVec.at_start) :
         LET c == cacheVec.at_start[i]
         IN fileCache[c.relative_path] = MkCacheRow(c.hash, c.file_size, c.modified_at)

\* C28: when the execute_device_sync command ended with SyncCancelled,
\* DeviceDisconnected or an IO error, the stored hash cache and last_synced_at
\* are what they were when the command started, whatever was already written
\* to or removed from the device.
C28_FailedJobKeepsCache ==
    (/\ mode = "device" /\ pc = "idle" /\ ~diffFresh
     /\ ret \in {"SyncCancelled", "DeviceDisconnected", "Io"})
    => /\ CacheAsLoaded
       /\ lastSynced = preLastSynced

\* a device job was cancelled after its first entry had replaced a file and
\* its cache row in memory
C28_Witness ==
    /\ mode = "device" /\ pc = "idle" /\ ~diffFresh
    /\ ret = "SyncCancelled"
    /\ files_completed = 1
    /\ execDiff.entries[1].action = "Update"
    /\ ~HasError(execDiff.entries[1].relative_path)
    /\ pre_cache # fileCache

\* a SyncComplete event has been sent
HasComplete == \E i \in 1..Len(events) : events[i].type = "SyncComplete"

\* the executor of the job has returned Ok (the sync command may still have
\* failed in its post-sync block)
ExecutorReturnedOk == pc = "idle" /\ abortedBy = "nil" /\ ret \in {"Ok", "Io"}

\* C29: in every executor run the k-th SyncProgress carries files_completed
\* = k - 1 and the total_files and total_bytes of SyncStarted, bytes_completed
\* never exceeds total_bytes, and SyncComplete has been sent exactly if the
\* executor returned Ok.
C29_ProgressCounters ==
    events # <<>> =>
        /\ \A i \in 1..Len(events) :
             events[i].type = "SyncProgress" =>
                /\ events[i].files_completed = Cardinality(ProgressBefore(i - 1))
                /\ events[i].total_files = events[1].total_files
                /\ events[i].total_bytes = events[1].total_bytes
                /\ events[i].bytes_completed <= events[1].total_bytes
        /\ bytes_completed <= events[1].total_bytes
        /\ HasComplete <=> ExecutorReturnedOk
        /\ ret \in {"SyncCancelled", "DeviceDisconnected"} => ~HasComplete

\* a job of two entries with bytes to transfer was cancelled before its
\* second entry
C29_Witness ==
    /\ ret = "SyncCancelled"
    /\ Len(events) = 2
    /\ events[1].total_files = 2
    /\ events[1].total_bytes > 0
    /\ events[2].type = "SyncProgress"
    /\ bytes_completed > 0

\* the target root and the directories below it
UnderTargetRoot == {"d", "root"}

OnlyTargetTreeTouched ==
    mode \in {"one_way", "device"} =>
        /\ srcFiles' = srcFiles
        /\ (tgtDirs \ tgtDirs') \cup (tgtDirs' \ tgtDirs) \subseteq UnderTargetRoot

\* C30: a step of the one-way or of the device executor leaves every source
\* file as it was, and creates or removes no directory other than the target
\* root's own tree.
C30_OnlyTargetTreeTouched ==
    [][OnlyTargetTreeTouched]_vars

====
